---- MODULE Spec2Model ----
(***************************************************************************)
(* Model of the Snapchat popular-accounts scraper:                         *)
(*   - SnapchatParser (src/src/extractors/snapchat_parser.py): the keyword *)
(*     search driver, the payload unwrapping and the profile normalizer;   *)
(*   - DataExporter (src/src/outputs/exporters.py): the flattener and the  *)
(*     six format exporters.                                               *)
(*                                                                         *)
(* Python values are tagged records [t |-> type, v |-> payload].  A dict   *)
(* is the sequence of its <<key, value>> pairs in insertion order.  A str  *)
(* value is the tuple of its characters, so that str.isdigit, int(), the   *)
(* escapers, sorted() and the f-string joins are computed character by     *)
(* character.  The keys of the raw API records and of the normalized       *)
(* profile are only ever compared for equality by the parser and are kept  *)
(* as atomic strings; the keys of the records handed to the exporter are   *)
(* joined, sorted and sanitized by the code and are character tuples.      *)
(* An exception is the value [t |-> "raise", v |-> <exception class>].     *)
(***************************************************************************)
EXTENDS Integers, Sequences, FiniteSets, TLC

VARIABLES
    in_profile,     \* _normalize_profile: the raw record handed in
    in_keyword,     \* _normalize_profile: the keyword handed in
    normalized,     \* _normalize_profile: what the call produced
    keywords,       \* search_by_keywords: the argument
    kpos,           \* search_by_keywords: keywords already iterated over
    all_profiles,   \* search_by_keywords: the accumulating result list
    escaped,        \* search_by_keywords: an exception left the method
    responses,      \* what the endpoint answered to each request so far
    response,       \* _search_single_keyword: the answer to the request
    max_profiles,   \* SnapchatParser.max_profiles
    raw_profiles,   \* _search_single_keyword: what the call produced
    clock,          \* the external clock read by utcnow_iso
    records,        \* DataExporter.export: the argument
    fmt,            \* DataExporter.fmt
    fs,             \* the file system: parent directory and output file
    export_result,  \* DataExporter.export: returned, or the exception raised
    rec,            \* _flatten: the argument
    flat,           \* _flatten: the result
    reflat,         \* _flatten applied to its own result
    phase           \* which call of the scenario has been made

vars == <<in_profile, in_keyword, normalized, keywords, kpos, all_profiles,
          escaped, responses, response, max_profiles, raw_profiles, clock,
          records, fmt, fs, export_result, rec, flat, reflat, phase>>

----------------------------------------------------------------------------
(* Python values *)

None_ == [t |-> "none"]
PyBool(b) == [t |-> "bool", v |-> b]
PyInt(n) == [t |-> "int", v |-> n]
PyStr(s) == [t |-> "str", v |-> s]
PyList(s) == [t |-> "list", v |-> s]
PyDict(pairs) == [t |-> "dict", v |-> pairs]
Raise(kind) == [t |-> "raise", v |-> kind]
EmptyDict == PyDict(<<>>)
Idle == [t |-> "idle"]

IsRaise(x) == x.t = "raise"
IsDict(x) == x.t = "dict"
IsList(x) == x.t = "list"

\* bool(x): Python truth value testing
Truthy(x) ==
    CASE x.t = "none" -> FALSE
      [] x.t = "bool" -> x.v
      [] x.t = "int" -> x.v # 0
      [] x.t \in {"str", "list", "dict"} -> Len(x.v) > 0

\* d[k] positions; a dict holds a key at most once
KeyIndex(d, k) == {i \in 1..Len(d.v) : d.v[i][1] = k}
HasKey(d, k) == KeyIndex(d, k) # {}
DictKeys(d) == {d.v[i][1] : i \in 1..Len(d.v)}

\* dict.get(k, default)
DictGet(d, k, default) ==
    IF HasKey(d, k) THEN d.v[CHOOSE i \in KeyIndex(d, k) : TRUE][2] ELSE default

\* x.get(k): AttributeError on anything that is not a dict
Get(x, k) == IF IsDict(x) THEN DictGet(x, k, None_) ELSE Raise("AttributeError")

\* x.get(k, default)
GetOr(x, k, default) ==
    IF IsDict(x) THEN DictGet(x, k, default) ELSE Raise("AttributeError")

\* a or b: a when a is truthy, else b; an exception in a is raised before b
\* is evaluated
Or(a, b) == IF IsRaise(a) THEN a ELSE IF Truthy(a) THEN a ELSE b

\* bool(x)
Bool(x) == IF IsRaise(x) THEN x ELSE PyBool(Truthy(x))

----------------------------------------------------------------------------
(* str(), str.isdigit() and int() *)

DecimalChars == <<"0", "1", "2", "3", "4", "5", "6", "7", "8", "9">>
DecimalSet == {DecimalChars[i] : i \in 1..Len(DecimalChars)}
\* characters for which str.isdigit is true and that are no decimal digit
\* (Unicode Numeric_Type=Digit): the superscript two, written by its code
\* point
NonDecimalDigitSet == {"U+00B2"}

RECURSIVE NatStr(_)
NatStr(n) ==
    IF n < 10 THEN <<DecimalChars[n + 1]>>
    ELSE NatStr(n \div 10) \o <<DecimalChars[(n % 10) + 1]>>

IntStr(n) == IF n < 0 THEN <<"-">> \o NatStr(-n) ELSE NatStr(n)

\* repr of a str: the quote is ' unless the str holds a ' and no ", and then
\* it is "; the quote and the backslash are written after a backslash, tab,
\* newline and carriage return as \t, \n and \r; the other characters of
\* the model are printable and written as they are
ReprQuote(s) ==
    IF (\E i \in 1..Len(s) : s[i] = "'") /\ ~(\E i \in 1..Len(s) : s[i] = "\"")
    THEN "\"" ELSE "'"
ReprChar(c, quote) ==
    CASE c = quote \/ c = "\\" -> <<"\\", c>>
      [] c = "\t" -> <<"\\", "t">>
      [] c = "\n" -> <<"\\", "n">>
      [] c = "\r" -> <<"\\", "r">>
      [] OTHER -> <<c>>
ReprStr(s) ==
    LET quote == ReprQuote(s)
        F[i \in 0..Len(s)] ==
            IF i = 0 THEN <<>> ELSE F[i - 1] \o ReprChar(s[i], quote)
    IN <<quote>> \o F[Len(s)] \o <<quote>>

RECURSIVE Repr(_)
RECURSIVE JoinRepr(_, _)
RECURSIVE JoinItems(_, _)
\* ", ".join(repr(e) for e in s[i:])
JoinRepr(s, i) ==
    IF i > Len(s) THEN <<>>
    ELSE Repr(s[i]) \o (IF i < Len(s) THEN <<",", " ">> ELSE <<>>)
         \o JoinRepr(s, i + 1)
\* ", ".join(repr(k) + ": " + repr(v) for k, v in pairs[i:]), the keys being
\* character tuples
JoinItems(pairs, i) ==
    IF i > Len(pairs) THEN <<>>
    ELSE Repr(PyStr(pairs[i][1])) \o <<":", " ">> \o Repr(pairs[i][2])
         \o (IF i < Len(pairs) THEN <<",", " ">> ELSE <<>>)
         \o JoinItems(pairs, i + 1)
\* repr(x)
Repr(x) ==
    CASE x.t = "none" -> <<"N", "o", "n", "e">>
      [] x.t = "bool" -> IF x.v THEN <<"T", "r", "u", "e">>
                         ELSE <<"F", "a", "l", "s", "e">>
      [] x.t = "int" -> IntStr(x.v)
      [] x.t = "str" -> ReprStr(x.v)
      [] x.t = "list" -> <<"[">> \o JoinRepr(x.v, 1) \o <<"]">>
      [] x.t = "dict" -> <<"{">> \o JoinItems(x.v, 1) \o <<"}">>

\* str(x)
Str(x) == IF x.t = "str" THEN x.v ELSE Repr(x)

\* s.isdigit(): non-empty and every character a digit
IsDigit(s) ==
    /\ Len(s) > 0
    /\ \A i \in 1..Len(s) : s[i] \in DecimalSet \cup NonDecimalDigitSet

DigitValue(c) == (CHOOSE i \in 1..Len(DecimalChars) : DecimalChars[i] = c) - 1

RECURSIVE ParseNat(_, _)
ParseNat(s, acc) ==
    IF Len(s) = 0 THEN acc ELSE ParseNat(Tail(s), acc * 10 + DigitValue(Head(s)))

\* int(x) for the arguments the parser passes: an int, or a str
IntOf(x) ==
    IF x.t = "int" THEN x
    ELSE IF x.t = "bool" THEN PyInt(IF x.v THEN 1 ELSE 0)
    ELSE IF x.t = "str" /\ Len(x.v) > 0 /\ \A i \in 1..Len(x.v) : x.v[i] \in DecimalSet
         THEN PyInt(ParseNat(x.v, 0))
    ELSE IF x.t = "str" THEN Raise("ValueError")
    ELSE Raise("TypeError")

----------------------------------------------------------------------------
(* SnapchatParser._normalize_profile *)

\* utcnow_iso(): the clock reading rendered as a timestamp string
utcnow_iso(now) == PyStr(<<"T">> \o NatStr(now))

location_raw(p) == Or(Get(p, "location"), Or(Get(p, "geo"), EmptyDict))

profile_info_raw(p) ==
    Or(Get(p, "profileInfo"),
       Or(Get(p, "profile"), Or(Get(p, "businessProfile"), EmptyDict)))

flags_raw(p) == Or(Get(p, "flags"), EmptyDict)

metadata_raw(p) == Or(Get(p, "metadata"), Or(Get(p, "meta"), EmptyDict))

business_raw(p) == Or(Get(p, "business"), EmptyDict)

\* Each local of the method is an operator of the record p and of the
\* groups it reads: loc, pinfo, fl, md, bz are location_raw, profile_info_raw,
\* flags_raw, metadata_raw and business_raw.

id_value(p, md, bz) ==
    Or(Get(p, "id"),
       Or(Get(p, "uuid"), Or(Get(md, "accountId"), Get(bz, "accountId"))))

username(p, pinfo) ==
    Or(Get(p, "username"), Or(Get(p, "snapchatId"), Get(pinfo, "username")))

display_name(p, pinfo) ==
    Or(Get(p, "displayName"), Or(Get(p, "name"), Get(pinfo, "displayName")))

description(p, pinfo) ==
    Or(Get(p, "description"), Or(Get(p, "bio"), Get(pinfo, "description")))

subscriber_count(p, pinfo) ==
    Or(Get(p, "subscriberCount"),
       Or(Get(p, "subscribers"), Or(Get(pinfo, "subscriberCount"), PyInt(0))))

is_verified(p, pinfo, fl) ==
    Bool(Or(Get(p, "isVerified"),
            Or(Get(pinfo, "isVerified"),
               Or(Get(fl, "isVerified"), Get(fl, "verified")))))

location_country(p, loc) ==
    Or(Get(loc, "country"), Or(Get(loc, "countryName"), Get(p, "country")))

location_state(loc) ==
    Or(Get(loc, "state"), Or(Get(loc, "region"), Get(loc, "province")))

location_display_address(p, loc) ==
    Or(Get(loc, "displayAddress"), Or(Get(loc, "fullAddress"), Get(p, "address")))

logo_url(pinfo) ==
    Or(Get(pinfo, "logoUrl"), Or(Get(pinfo, "avatarUrl"), Get(pinfo, "iconUrl")))

hero_image_url(pinfo) ==
    Or(Get(pinfo, "heroImageUrl"),
       Or(Get(pinfo, "bannerUrl"), Get(pinfo, "coverUrl")))

created_at(pinfo, md, bz) ==
    Or(Get(pinfo, "createdAt"), Or(Get(md, "createdAt"), Get(bz, "createdAt")))

\* faulty variant of category: the trailing `or ""` is lost
category_no_default(p, pinfo, bz) ==
    Or(Get(pinfo, "category"), Or(Get(bz, "category"), Get(p, "category")))

category(p, pinfo, bz) ==
    Or(Get(pinfo, "category"),
       Or(Get(bz, "category"), Or(Get(p, "category"), PyStr(<<>>))))

\* faulty variant of is_lens_creator: the first candidate that is not None decides
is_lens_creator_first_non_null(p, fl, bz) ==
    LET a == Get(fl, "isLensCreator")
        b == Get(p, "isLensCreator")
    IN Bool(IF a # None_ THEN a ELSE IF b # None_ THEN b
            ELSE Get(bz, "isLensCreator"))

is_lens_creator(p, fl, bz) ==
    Bool(Or(Get(fl, "isLensCreator"),
            Or(Get(p, "isLensCreator"), Get(bz, "isLensCreator"))))

has_highlights(p, pinfo, fl) ==
    Bool(Or(Get(fl, "hasHighlights"),
            Or(Get(p, "hasHighlights"), Get(pinfo, "hasHighlights"))))

organization_id(md, bz) ==
    Or(Get(md, "organizationId"), Get(bz, "organizationId"))

\* int(subscriber_count) if str(subscriber_count).isdigit() else 0
subscriberCount_entry(count) ==
    IF IsRaise(count) THEN count
    ELSE IF IsDigit(Str(count)) THEN IntOf(count)
    ELSE PyInt(0)

has_lenses(p, fl) == Bool(Or(Get(fl, "hasLenses"), Get(p, "hasLenses")))

is_brand_profile(p, fl) ==
    Bool(Or(Get(fl, "isBrandProfile"), Get(p, "isBrandProfile")))

is_snapchat_plus_subscriber(p, fl) ==
    Bool(Or(Get(fl, "isSnapchatPlusSubscriber"),
            Get(p, "isSnapchatPlusSubscriber")))

\* metadata_raw.get("accountId") or id_value
metadata_account_id(md, id) == Or(Get(md, "accountId"), id)

\* the expressions of the method, each evaluated once: the locals of lines
\* 144-241, then the entries of the dict display that are computed in place
Locals(p) ==
    LET loc == location_raw(p)
        pinfo == profile_info_raw(p)
        fl == flags_raw(p)
        md == metadata_raw(p)
        bz == business_raw(p)
        id == id_value(p, md, bz)
        count == subscriber_count(p, pinfo)
    IN [id_value |-> id,
        username |-> username(p, pinfo),
        display_name |-> display_name(p, pinfo),
        description |-> description(p, pinfo),
        subscriber_count |-> count,
        is_verified |-> is_verified(p, pinfo, fl),
        location_country |-> location_country(p, loc),
        location_state |-> location_state(loc),
        location_display_address |-> location_display_address(p, loc),
        logo_url |-> logo_url(pinfo),
        hero_image_url |-> hero_image_url(pinfo),
        created_at |-> created_at(pinfo, md, bz),
        category |-> category(p, pinfo, bz),
        is_lens_creator |-> is_lens_creator(p, fl, bz),
        has_highlights |-> has_highlights(p, pinfo, fl),
        organization_id |-> organization_id(md, bz),
        subscriberCount |-> subscriberCount_entry(count),
        subcategory |-> GetOr(pinfo, "subcategory", PyStr(<<>>)),
        tier |-> Get(pinfo, "tier"),
        hasLenses |-> has_lenses(p, fl),
        isBrandProfile |-> is_brand_profile(p, fl),
        isSnapchatPlusSubscriber |-> is_snapchat_plus_subscriber(p, fl),
        accountId |-> metadata_account_id(md, id),
        profileIconColor |-> Get(md, "profileIconColor")]

\* the order in which the method evaluates them
EvalOrder ==
    <<"id_value", "username", "display_name", "description",
      "subscriber_count", "is_verified", "location_country", "location_state",
      "location_display_address", "logo_url", "hero_image_url", "created_at",
      "category", "is_lens_creator", "has_highlights", "organization_id",
      "subscriberCount", "subcategory", "tier", "hasLenses", "isBrandProfile",
      "isSnapchatPlusSubscriber", "accountId", "profileIconColor">>

\* the dict display of lines 243-283 over the evaluated expressions L
NormalizedDict(L, kw, now) ==
    PyDict(<<
        <<"id", L.id_value>>,
        <<"username", L.username>>,
        <<"displayName", L.display_name>>,
        <<"description", L.description>>,
        <<"subscriberCount", L.subscriberCount>>,
        <<"isVerified", L.is_verified>>,
        <<"location", PyDict(<<
            <<"country", L.location_country>>,
            <<"state", L.location_state>>,
            <<"displayAddress", L.location_display_address>> >>)>>,
        <<"profileInfo", PyDict(<<
            <<"logoUrl", L.logo_url>>,
            <<"heroImageUrl", L.hero_image_url>>,
            <<"createdAt", L.created_at>>,
            <<"category", L.category>>,
            <<"subcategory", L.subcategory>>,
            <<"tier", L.tier>> >>)>>,
        <<"flags", PyDict(<<
            <<"isLensCreator", L.is_lens_creator>>,
            <<"hasHighlights", L.has_highlights>>,
            <<"hasLenses", L.hasLenses>>,
            <<"isBrandProfile", L.isBrandProfile>>,
            <<"isSnapchatPlusSubscriber", L.isSnapchatPlusSubscriber>> >>)>>,
        <<"metadata", PyDict(<<
            <<"accountId", L.accountId>>,
            <<"organizationId", L.organization_id>>,
            <<"profileIconColor", L.profileIconColor>> >>)>>,
        <<"searchKeyword", kw>>,
        <<"scrapedAt", utcnow_iso(now)>> >>)

\* _normalize_profile(profile, keyword): the normalized dict, or the first
\* exception an expression raises
_normalize_profile(p, kw, now) ==
    LET L == Locals(p)
        bad == {i \in 1..Len(EvalOrder) : IsRaise(L[EvalOrder[i]])}
    IN IF bad # {} THEN L[EvalOrder[CHOOSE i \in bad : \A j \in bad : i <= j]]
       ELSE NormalizedDict(L, kw, now)

----------------------------------------------------------------------------
(* The raw records handed to _normalize_profile: every record with at most *)
(* two entries among the keys the method reads, at the root or in a group, *)
(* a group being present as a mapping or as any other JSON value.          *)

RootStrKeys == <<"id", "uuid", "username", "snapchatId", "displayName", "name",
                 "description", "bio", "country", "address", "category">>
RootFlagKeys == <<"isVerified", "isLensCreator", "hasHighlights", "hasLenses",
                  "isBrandProfile", "isSnapchatPlusSubscriber">>
RootCountKeys == <<"subscriberCount", "subscribers">>
RootKeySeq == RootStrKeys \o RootFlagKeys \o RootCountKeys

LocationAliases == <<"location", "geo">>
ProfileInfoAliases == <<"profileInfo", "profile", "businessProfile">>
FlagsAliases == <<"flags">>
MetadataAliases == <<"metadata", "meta">>
BusinessAliases == <<"business">>
AliasSeq == LocationAliases \o ProfileInfoAliases \o FlagsAliases
            \o MetadataAliases \o BusinessAliases

Range(s) == {s[i] : i \in 1..Len(s)}

LocationStrKeys == <<"country", "countryName", "state", "region", "province",
                     "displayAddress", "fullAddress">>
ProfileInfoStrKeys == <<"username", "displayName", "description", "logoUrl",
                        "avatarUrl", "iconUrl", "heroImageUrl", "bannerUrl",
                        "coverUrl", "createdAt", "category", "subcategory",
                        "tier">>
ProfileInfoFlagKeys == <<"isVerified", "hasHighlights">>
ProfileInfoCountKeys == <<"subscriberCount">>
FlagsFlagKeys == <<"isVerified", "verified", "isLensCreator", "hasHighlights",
                   "hasLenses", "isBrandProfile", "isSnapchatPlusSubscriber">>
MetadataStrKeys == <<"accountId", "createdAt", "organizationId",
                     "profileIconColor">>
BusinessStrKeys == <<"accountId", "createdAt", "category", "organizationId">>
BusinessFlagKeys == <<"isLensCreator">>

\* the keys read in the group stored under alias g, by kind of value
GroupStrKeys(g) ==
    IF g \in Range(LocationAliases) THEN LocationStrKeys
    ELSE IF g \in Range(ProfileInfoAliases) THEN ProfileInfoStrKeys
    ELSE IF g \in Range(MetadataAliases) THEN MetadataStrKeys
    ELSE IF g \in Range(BusinessAliases) THEN BusinessStrKeys
    ELSE <<>>
GroupFlagKeys(g) ==
    IF g \in Range(ProfileInfoAliases) THEN ProfileInfoFlagKeys
    ELSE IF g \in Range(FlagsAliases) THEN FlagsFlagKeys
    ELSE IF g \in Range(BusinessAliases) THEN BusinessFlagKeys
    ELSE <<>>
GroupCountKeys(g) ==
    IF g \in Range(ProfileInfoAliases) THEN ProfileInfoCountKeys ELSE <<>>
GroupKeySeq(g) == GroupStrKeys(g) \o GroupFlagKeys(g) \o GroupCountKeys(g)

StrVals == {None_, PyStr(<<>>), PyStr(<<"x">>), PyStr(<<"y">>)}
FlagVals == {None_, PyBool(FALSE), PyBool(TRUE), PyInt(0), PyStr(<<"n", "o">>)}
CountVals ==
    {None_, PyStr(<<>>), PyInt(0), PyInt(42), PyInt(-5), PyBool(TRUE),
     PyStr(<<"4", "2">>), PyStr(<<"0", "0", "7">>), PyStr(<<"1", "2", "a">>),
     PyStr(<<"-", "5">>), PyStr(<<"U+00B2">>), PyList(<<PyInt(1)>>)}
\* what a group key may hold instead of a mapping
NonMappingVals ==
    {None_, EmptyDict, PyStr(<<>>), PyStr(<<"a", "b", "c">>), PyInt(0),
     PyInt(5), PyList(<<>>), PyList(<<PyInt(1)>>)}

\* one entry of a raw record: key k of group g (g = "" for the root), or the
\* whole group g (k = "") holding v
Items ==
    UNION {[g : {""}, k : Range(RootStrKeys), v : StrVals],
           [g : {""}, k : Range(RootFlagKeys), v : FlagVals],
           [g : {""}, k : Range(RootCountKeys), v : CountVals],
           [g : Range(AliasSeq), k : {""}, v : NonMappingVals]}
    \cup UNION {[g : {a}, k : Range(GroupStrKeys(a)), v : StrVals]
                    : a \in Range(AliasSeq)}
    \cup UNION {[g : {a}, k : Range(GroupFlagKeys(a)), v : FlagVals]
                    : a \in Range(AliasSeq)}
    \cup UNION {[g : {a}, k : Range(GroupCountKeys(a)), v : CountVals]
                    : a \in Range(AliasSeq)}

\* two entries that one record can hold together
Compatible(i1, i2) ==
    /\ (i1.g = i2.g /\ i1.k = i2.k) => i1 = i2
    /\ (i1.g = i2.g /\ i1.g # "") => ((i1.k = "") <=> (i2.k = ""))

\* the pairs <<k, v>> of the entries of S in group g, in the order of keyseq
PairsOf(S, g, keyseq) ==
    LET present == SelectSeq(keyseq, LAMBDA k : \E i \in S : i.g = g /\ i.k = k)
    IN [n \in 1..Len(present) |->
            <<present[n], (CHOOSE i \in S : i.g = g /\ i.k = present[n]).v>>]

\* the raw record holding the entries of S
BuildRecord(S) ==
    LET groups == SelectSeq(AliasSeq, LAMBDA a : \E i \in S : i.g = a)
        groupValue(a) ==
            IF \E i \in S : i.g = a /\ i.k = ""
            THEN (CHOOSE i \in S : i.g = a /\ i.k = "").v
            ELSE PyDict(PairsOf(S, a, GroupKeySeq(a)))
    IN PyDict(PairsOf(S, "", RootKeySeq)
              \o [n \in 1..Len(groups) |-> <<groups[n], groupValue(groups[n])>>])

KeywordPool == {PyStr(<<"a">>), PyStr(<<"b">>)}

----------------------------------------------------------------------------
(* Scenario: one call of _normalize_profile *)

InitNormalize ==
    /\ \E i1, i2 \in Items :
          /\ Compatible(i1, i2)
          /\ in_profile = BuildRecord({i1, i2})
    /\ in_keyword \in KeywordPool
    /\ normalized = Idle
    /\ clock = 0
    /\ phase = "ready"
    /\ keywords = <<>> /\ kpos = 0 /\ all_profiles = <<>> /\ escaped = FALSE
    /\ responses = <<>> /\ response = Idle /\ max_profiles = 0
    /\ raw_profiles = Idle
    /\ records = Idle /\ fmt = "json" /\ fs = Idle /\ export_result = Idle
    /\ rec = Idle /\ flat = Idle /\ reflat = Idle

\* normalized = self._normalize_profile(profile, keyword); utcnow_iso() is the
\* last expression of the body (line 282), so the clock is read only by a
\* call that returns
NormalizeProfile ==
    /\ phase = "ready"
    /\ normalized' = _normalize_profile(in_profile, in_keyword, clock)
    /\ clock' = IF IsRaise(normalized') THEN clock ELSE clock + 1
    /\ phase' = "normalized"
    /\ UNCHANGED <<in_profile, in_keyword, keywords, kpos, all_profiles,
                   escaped, responses, response, max_profiles, raw_profiles,
                   records, fmt, fs, export_result, rec, flat, reflat>>

NextNormalize == NormalizeProfile

SpecNormalize == InitNormalize /\ [][NextNormalize]_vars

----------------------------------------------------------------------------
(* Properties of _normalize_profile *)

\* the value of the normalized profile n at a path of keys
RECURSIVE At(_, _)
At(n, path) == IF Len(path) = 0 THEN n ELSE At(Get(n, Head(path)), Tail(path))

Produced == phase = "normalized" /\ IsDict(normalized)

AliasesOf(G) ==
    CASE G = "location" -> Range(LocationAliases)
      [] G = "profileInfo" -> Range(ProfileInfoAliases)
      [] G = "flags" -> Range(FlagsAliases)
      [] G = "metadata" -> Range(MetadataAliases)
      [] G = "business" -> Range(BusinessAliases)

\* the group of a raw record that the method reads for G
GroupOf(p, G) ==
    CASE G = "" -> p
      [] G = "location" -> location_raw(p)
      [] G = "profileInfo" -> profile_info_raw(p)
      [] G = "flags" -> flags_raw(p)
      [] G = "metadata" -> metadata_raw(p)
      [] G = "business" -> business_raw(p)

\* the candidates <<group, key>> of each flag field, in their fixed order
FlagFields ==
    { [out |-> <<"isVerified">>,
       cands |-> << <<"", "isVerified">>, <<"profileInfo", "isVerified">>,
                    <<"flags", "isVerified">>, <<"flags", "verified">> >>],
      [out |-> <<"flags", "isLensCreator">>,
       cands |-> << <<"flags", "isLensCreator">>, <<"", "isLensCreator">>,
                    <<"business", "isLensCreator">> >>],
      [out |-> <<"flags", "hasHighlights">>,
       cands |-> << <<"flags", "hasHighlights">>, <<"", "hasHighlights">>,
                    <<"profileInfo", "hasHighlights">> >>],
      [out |-> <<"flags", "hasLenses">>,
       cands |-> << <<"flags", "hasLenses">>, <<"", "hasLenses">> >>],
      [out |-> <<"flags", "isBrandProfile">>,
       cands |-> << <<"flags", "isBrandProfile">>, <<"", "isBrandProfile">> >>],
      [out |-> <<"flags", "isSnapchatPlusSubscriber">>,
       cands |-> << <<"flags", "isSnapchatPlusSubscriber">>,
                    <<"", "isSnapchatPlusSubscriber">> >>] }

\* the values found at the candidates, in order
CandidateValues(p, cands) ==
    [i \in 1..Len(cands) |-> Get(GroupOf(p, cands[i][1]), cands[i][2])]

\* truthiness of the first candidate value that is present and not null
FirstNonNullTruth(vals) ==
    LET nn == {i \in 1..Len(vals) : vals[i] # None_}
    IN IF nn = {} THEN FALSE
       ELSE LET f == CHOOSE i \in nn : \A j \in nn : i <= j
            IN ~IsRaise(vals[f]) /\ Truthy(vals[f])

AnyTruthy(vals) == \E i \in 1..Len(vals) : ~IsRaise(vals[i]) /\ Truthy(vals[i])

\* C9 as stated: every flag field is the truthiness of the first candidate
\* that is present and not null, so that an explicit false at an earlier
\* candidate is not overridden by a true value at a later one.
C9_FirstNonNullCandidateDecides ==
    Produced =>
        \A f \in FlagFields :
            At(normalized, f.out)
                = PyBool(FirstNonNullTruth(CandidateValues(in_profile, f.cands)))

\* C9 as amended: every flag field of a normalized profile is true exactly
\* when at least one of its candidates holds a truthy value (the first truthy
\* candidate decides; a null or falsy earlier candidate, an explicit false
\* included, is passed over), and false when none does.
C9_AnyTruthyCandidateDecides ==
    Produced =>
        \A f \in FlagFields :
            At(normalized, f.out)
                = PyBool(AnyTruthy(CandidateValues(in_profile, f.cands)))

\* C9 witness: an explicit false in the flags group, a true at the root, and
\* the flag comes out true.
C9_Witness ==
    /\ Produced
    /\ Get(GroupOf(in_profile, "flags"), "isLensCreator") = PyBool(FALSE)
    /\ Get(in_profile, "isLensCreator") = PyBool(TRUE)
    /\ At(normalized, <<"flags", "isLensCreator">>) = PyBool(TRUE)

\* the group keys of the record that hold something that is not a mapping
\* and not null
NonMappingGroups(p) ==
    {a \in Range(AliasSeq) : HasKey(p, a) /\ Get(p, a) # None_ /\ ~IsDict(Get(p, a))}

\* the record without the entries of the keys in K
Without(p, K) == PyDict(SelectSeq(p.v, LAMBDA kv : kv[1] \notin K))

\* C2 as stated: a record in which a candidate group is present but is not a
\* mapping is normalized without an exception, to the profile of the same
\* record with that group absent (at the clock reading of the call, the one
\* before the reading a returned call leaves).
C2_NonMappingGroupIsAbsent ==
    (phase = "normalized" /\ NonMappingGroups(in_profile) # {}) =>
        /\ IsDict(normalized)
        /\ normalized = _normalize_profile(
                Without(in_profile, NonMappingGroups(in_profile)),
                in_keyword, clock - 1)

\* the first candidate value that is present and neither null nor empty,
\* else 0
Resolved(vals) ==
    LET ok == {i \in 1..Len(vals) : ~IsRaise(vals[i]) /\ Truthy(vals[i])}
    IN IF ok = {} THEN PyInt(0)
       ELSE vals[CHOOSE i \in ok : \A j \in ok : i <= j]

SubscriberCands ==
    << <<"", "subscriberCount">>, <<"", "subscribers">>,
       <<"profileInfo", "subscriberCount">> >>

OnlyDecimalDigits(s) == Len(s) > 0 /\ \A i \in 1..Len(s) : s[i] \in DecimalSet

\* C5 as stated: the coercion of subscriberCount never raises, and the field
\* is the integer value of the resolved candidate when its string
\* representation consists only of decimal digits, and 0 otherwise.
C5_SubscriberCountCoercion ==
    phase = "normalized" =>
        /\ normalized # Raise("ValueError")
        /\ IsDict(normalized) =>
            LET r == Resolved(CandidateValues(in_profile, SubscriberCands))
            IN /\ At(normalized, <<"subscriberCount">>).t = "int"
               /\ At(normalized, <<"subscriberCount">>).v >= 0
               /\ At(normalized, <<"subscriberCount">>).v
                    = IF OnlyDecimalDigits(Str(r)) THEN ParseNat(Str(r), 0) ELSE 0

\* the fixed schema: the keys of the profile and of its groups, in order
SchemaKeys ==
    <<"id", "username", "displayName", "description", "subscriberCount",
      "isVerified", "location", "profileInfo", "flags", "metadata",
      "searchKeyword", "scrapedAt">>
SchemaGroupKeys ==
    [location |-> <<"country", "state", "displayAddress">>,
     profileInfo |-> <<"logoUrl", "heroImageUrl", "createdAt", "category",
                       "subcategory", "tier">>,
     flags |-> <<"isLensCreator", "hasHighlights", "hasLenses",
                 "isBrandProfile", "isSnapchatPlusSubscriber">>,
     metadata |-> <<"accountId", "organizationId", "profileIconColor">>]

KeysInOrder(d) == [i \in 1..Len(d.v) |-> d.v[i][1]]

\* the candidates of every field that is no flag, with its documented default
ValueFields ==
    { [out |-> <<"id">>, dflt |-> None_,
       cands |-> << <<"", "id">>, <<"", "uuid">>, <<"metadata", "accountId">>,
                    <<"business", "accountId">> >>],
      [out |-> <<"username">>, dflt |-> None_,
       cands |-> << <<"", "username">>, <<"", "snapchatId">>,
                    <<"profileInfo", "username">> >>],
      [out |-> <<"displayName">>, dflt |-> None_,
       cands |-> << <<"", "displayName">>, <<"", "name">>,
                    <<"profileInfo", "displayName">> >>],
      [out |-> <<"description">>, dflt |-> None_,
       cands |-> << <<"", "description">>, <<"", "bio">>,
                    <<"profileInfo", "description">> >>],
      [out |-> <<"subscriberCount">>, dflt |-> PyInt(0), cands |-> SubscriberCands],
      [out |-> <<"location", "country">>, dflt |-> None_,
       cands |-> << <<"location", "country">>, <<"location", "countryName">>,
                    <<"", "country">> >>],
      [out |-> <<"location", "state">>, dflt |-> None_,
       cands |-> << <<"location", "state">>, <<"location", "region">>,
                    <<"location", "province">> >>],
      [out |-> <<"location", "displayAddress">>, dflt |-> None_,
       cands |-> << <<"location", "displayAddress">>,
                    <<"location", "fullAddress">>, <<"", "address">> >>],
      [out |-> <<"profileInfo", "logoUrl">>, dflt |-> None_,
       cands |-> << <<"profileInfo", "logoUrl">>, <<"profileInfo", "avatarUrl">>,
                    <<"profileInfo", "iconUrl">> >>],
      [out |-> <<"profileInfo", "heroImageUrl">>, dflt |-> None_,
       cands |-> << <<"profileInfo", "heroImageUrl">>,
                    <<"profileInfo", "bannerUrl">>,
                    <<"profileInfo", "coverUrl">> >>],
      [out |-> <<"profileInfo", "createdAt">>, dflt |-> None_,
       cands |-> << <<"profileInfo", "createdAt">>, <<"metadata", "createdAt">>,
                    <<"business", "createdAt">> >>],
      [out |-> <<"profileInfo", "category">>, dflt |-> PyStr(<<>>),
       cands |-> << <<"profileInfo", "category">>, <<"business", "category">>,
                    <<"", "category">> >>],
      [out |-> <<"profileInfo", "subcategory">>, dflt |-> PyStr(<<>>),
       cands |-> << <<"profileInfo", "subcategory">> >>],
      [out |-> <<"profileInfo", "tier">>, dflt |-> None_,
       cands |-> << <<"profileInfo", "tier">> >>],
      [out |-> <<"metadata", "organizationId">>, dflt |-> None_,
       cands |-> << <<"metadata", "organizationId">>,
                    <<"business", "organizationId">> >>],
      [out |-> <<"metadata", "profileIconColor">>, dflt |-> None_,
       cands |-> << <<"metadata", "profileIconColor">> >>] }

\* the record holds candidate <<G, k>>: key k at the root, or in a mapping
\* stored under one of the names of group G
HoldsCandidate(p, c) ==
    IF c[1] = "" THEN HasKey(p, c[2])
    ELSE \E a \in AliasesOf(c[1]) : IsDict(Get(p, a)) /\ HasKey(Get(p, a), c[2])

LacksAll(p, cands) == \A i \in 1..Len(cands) : ~HoldsCandidate(p, cands[i])

\* C6: every normalized profile has every field of the fixed schema, in the
\* root and in its four groups; a field none of whose candidate keys is in
\* the record holds its documented default (null, 0, "", false); and
\* metadata.accountId holds the value of id when the metadata group has no
\* accountId.
C6_SchemaTotalWithDefaults ==
    Produced =>
        /\ KeysInOrder(normalized) = SchemaKeys
        /\ \A g \in DOMAIN SchemaGroupKeys :
              /\ IsDict(Get(normalized, g))
              /\ KeysInOrder(Get(normalized, g)) = SchemaGroupKeys[g]
        /\ \A f \in ValueFields :
              LacksAll(in_profile, f.cands) => At(normalized, f.out) = f.dflt
        /\ \A f \in FlagFields :
              LacksAll(in_profile, f.cands) => At(normalized, f.out) = PyBool(FALSE)
        /\ ~HasKey(GroupOf(in_profile, "metadata"), "accountId") =>
              At(normalized, <<"metadata", "accountId">>) = At(normalized, <<"id">>)
        /\ At(normalized, <<"searchKeyword">>) = in_keyword

\* C6 witness: a record that holds only a uuid is normalized; id and
\* metadata.accountId hold the uuid and the other fields their defaults.
C6_Witness ==
    /\ Produced
    /\ in_profile = PyDict(<< <<"uuid", PyStr(<<"x">>)>> >>)
    /\ At(normalized, <<"id">>) = PyStr(<<"x">>)
    /\ At(normalized, <<"metadata", "accountId">>) = PyStr(<<"x">>)
    /\ At(normalized, <<"username">>) = None_
    /\ At(normalized, <<"profileInfo", "category">>) = PyStr(<<>>)
    /\ At(normalized, <<"flags", "hasLenses">>) = PyBool(FALSE)

----------------------------------------------------------------------------
(* SnapchatParser._search_single_keyword *)

\* what session.get returned: the status code and what response.json()
\* gives, the decoded payload or the exception it raises (the ValueError of
\* an undecodable body, or another one)
Http(code, body) == [t |-> "response", status_code |-> code, json |-> body]

\* faulty variant of ContainerKeys: results is tried before profiles
ContainerKeys_results_first ==
    <<"results", "profiles", "accounts", "creators", "data", "items">>

ContainerKeys == <<"profiles", "results", "accounts", "creators", "data", "items">>

\* [p for p in value if isinstance(p, dict)]
OnlyDicts(s) == SelectSeq(s, IsDict)

\* lines 107-116: the candidate records of a decoded payload
Candidates(payload) ==
    IF IsList(payload) THEN OnlyDicts(payload.v)
    ELSE IF IsDict(payload) THEN
        LET hit == {i \in 1..Len(ContainerKeys) :
                        IsList(Get(payload, ContainerKeys[i]))}
        IN IF hit = {} THEN <<>>
           ELSE OnlyDicts(
                  Get(payload,
                      ContainerKeys[CHOOSE i \in hit : \A j \in hit : i <= j]).v)
    ELSE <<>>

\* s[:n]: the first n items, all of s when it has fewer; for a negative n,
\* all but the last -n items
SliceTo(s, n) ==
    IF n >= 0 THEN SubSeq(s, 1, IF n < Len(s) THEN n ELSE Len(s))
    ELSE SubSeq(s, 1, IF Len(s) + n > 0 THEN Len(s) + n ELSE 0)

\* faulty variant of Truncate: the slice keeps one record too many
Truncate_off_by_one(profiles, cap) ==
    IF cap # 0 /\ Len(profiles) > cap THEN SliceTo(profiles, cap + 1)
    ELSE profiles

\* lines 121-122: profiles[: self.max_profiles] when max_profiles is truthy
\* and below the number of candidates, which every negative max_profiles is
Truncate(profiles, cap) ==
    IF cap # 0 /\ Len(profiles) > cap THEN SliceTo(profiles, cap) ELSE profiles

\* _search_single_keyword(keyword): the list of raw records, or the
\* exception that leaves the call: the one session.get raised, or the one
\* response.json() raised when it is no ValueError (line 103 catches
\* ValueError only)
_search_single_keyword(resp, cap) ==
    IF IsRaise(resp) THEN resp
    ELSE IF resp.status_code # 200 THEN PyList(<<>>)
    ELSE IF resp.json = Raise("ValueError") THEN PyList(<<>>)
    ELSE IF IsRaise(resp.json) THEN resp.json
    ELSE PyList(Truncate(Candidates(resp.json), cap))

----------------------------------------------------------------------------
(* The answers of the endpoint *)

MaxRecords == 3
MaxCap == 2
MaxKeywords == 2

RecA == PyDict(<< <<"id", PyStr(<<"1">>)>>, <<"username", PyStr(<<"x">>)>> >>)
RecB == PyDict(<< <<"uuid", PyStr(<<"2">>)>>,
                 <<"flags", PyDict(<< <<"verified", PyBool(TRUE)>> >>)>> >>)
\* a record whose location is no mapping
RecBad == PyDict(<< <<"id", PyStr(<<"3">>)>>,
                   <<"location", PyStr(<<"a", "b", "c">>)>> >>)

SeqsUpTo(S, n) == UNION {[1..k -> S] : k \in 0..n}

\* list payloads: records and other JSON values, in any order
ListEntries == {RecA, RecB, RecBad, PyStr(<<"x">>)}
ListPayloads == {PyList(q) : q \in SeqsUpTo(ListEntries, MaxRecords)}

\* mapping payloads: at most two keys among the container keys and another
\* key, each holding a list or any other JSON value
PayloadKeySeq == ContainerKeys \o <<"other">>
ContainerVals ==
    {None_, PyStr(<<"x">>), RecA, PyList(<<>>), PyList(<<RecA>>),
     PyList(<<RecB, PyStr(<<"x">>), RecA, RecA>>)}
KeyedVals == [k : Range(PayloadKeySeq), v : ContainerVals]
MappingOf(S) ==
    LET present == SelectSeq(PayloadKeySeq, LAMBDA k : \E e \in S : e.k = k)
    IN PyDict([n \in 1..Len(present) |->
                  <<present[n], (CHOOSE e \in S : e.k = present[n]).v>>])
MappingPayloads ==
    {EmptyDict} \cup
    UNION {{MappingOf({e1, e2}) : e2 \in {e \in KeyedVals : e.k # e1.k \/ e = e1}}
              : e1 \in KeyedVals}

ScalarPayloads == {None_, PyStr(<<"x">>), PyInt(5)}

SearchResponses ==
    {Raise("ConnectionError"), Http(500, None_), Http(404, PyList(<<RecA>>)),
     Http(200, Raise("ValueError")), Http(200, Raise("RuntimeError"))}
    \cup {Http(200, b) : b \in ListPayloads \cup MappingPayloads \cup ScalarPayloads}

----------------------------------------------------------------------------
(* Scenario: one call of _search_single_keyword *)

InitSearch ==
    /\ response \in SearchResponses
    /\ max_profiles \in (0 - MaxCap)..MaxCap
    /\ raw_profiles = Idle
    /\ phase = "ready"
    /\ in_profile = Idle /\ in_keyword = Idle /\ normalized = Idle /\ clock = 0
    /\ keywords = <<>> /\ kpos = 0 /\ all_profiles = <<>> /\ escaped = FALSE
    /\ responses = <<>>
    /\ records = Idle /\ fmt = "json" /\ fs = Idle /\ export_result = Idle
    /\ rec = Idle /\ flat = Idle /\ reflat = Idle

\* raw_profiles = self._search_single_keyword(keyword)
SearchSingleKeyword ==
    /\ phase = "ready"
    /\ raw_profiles' = _search_single_keyword(response, max_profiles)
    /\ phase' = "searched"
    /\ UNCHANGED <<in_profile, in_keyword, normalized, keywords, kpos,
                   all_profiles, escaped, responses, response, max_profiles,
                   clock, records, fmt, fs, export_result, rec, flat, reflat>>

NextSearch == SearchSingleKeyword

SpecSearch == InitSearch /\ [][NextSearch]_vars

----------------------------------------------------------------------------
(* Properties of _search_single_keyword *)

Decoded == ~IsRaise(response) /\ response.status_code = 200
           /\ ~IsRaise(response.json)

Searched == phase = "searched" /\ Decoded

PriorityOrder == <<"profiles", "results", "accounts", "creators", "data", "items">>

First(I) == CHOOSE i \in I : \A j \in I : i <= j

MappingEntries(v) == IF IsList(v) THEN SelectSeq(v.v, IsDict) ELSE <<>>

\* what max_profiles leaves of the records q: the first cap of them under a
\* positive cap, all of them under no cap (0), and all but the last -cap
\* under a negative value
Capped(q, cap) ==
    IF cap > 0 /\ Len(q) > cap THEN [i \in 1..cap |-> q[i]]
    ELSE IF cap < 0 /\ Len(q) + cap > 0 THEN [i \in 1..(Len(q) + cap) |-> q[i]]
    ELSE IF cap < 0 THEN <<>>
    ELSE q

\* the records of the first container key that is present in the payload
FromFirstPresentKey(payload) ==
    LET present == {i \in 1..Len(PriorityOrder) : HasKey(payload, PriorityOrder[i])}
    IN IF present = {} THEN <<>>
       ELSE MappingEntries(Get(payload, PriorityOrder[First(present)]))

\* the records of the first container key that holds a list
FromFirstListKey(payload) ==
    LET lists == {i \in 1..Len(PriorityOrder) :
                      IsList(Get(payload, PriorityOrder[i]))}
    IN IF lists = {} THEN <<>>
       ELSE MappingEntries(Get(payload, PriorityOrder[First(lists)]))

\* C10 as stated: for a mapping payload the records are those of the first
\* container key present (profiles, results, accounts, creators, data,
\* items), a lower-priority key never being used when a higher-priority key
\* is present, and none when no container key is present; for a list payload
\* they are its mapping entries in order.  (The records are then cut to the
\* cap.)
C10_FirstPresentKeySupplies ==
    Searched =>
        raw_profiles =
            PyList(Capped(IF IsDict(response.json)
                          THEN FromFirstPresentKey(response.json)
                          ELSE MappingEntries(response.json),
                          max_profiles))

\* C10 as amended: for a mapping payload the records are the mapping entries
\* of the first container key, in the order profiles, results, accounts,
\* creators, data, items, whose value is a list (a container key holding
\* anything else is passed over, and a lower-priority key is never used when
\* a higher-priority key holds a list); none, without error, when no
\* container key holds a list; for a list payload they are its mapping
\* entries in order, other entries being dropped.
C10_FirstListKeySupplies ==
    Searched =>
        raw_profiles =
            PyList(Capped(IF IsDict(response.json)
                          THEN FromFirstListKey(response.json)
                          ELSE MappingEntries(response.json),
                          max_profiles))

\* C10 witness: two container keys hold lists and the records are those of
\* the one that comes first in the order.
C10_Witness ==
    /\ Searched
    /\ IsDict(response.json)
    /\ Get(response.json, "results") = PyList(<<RecA>>)
    /\ IsList(Get(response.json, "items"))
    /\ Len(Get(response.json, "items").v) > 1
    /\ max_profiles = 0
    /\ raw_profiles = PyList(<<RecA>>)

\* the candidate records the payload yields, before the cap
Yielded(payload) ==
    IF IsDict(payload) THEN FromFirstListKey(payload) ELSE MappingEntries(payload)

\* C3: with a cap set (max_profiles > 0), a search that yields more than
\* max_profiles candidate records returns exactly the first max_profiles of
\* them in payload order, a search that yields max_profiles or fewer returns
\* them all, and so never more than max_profiles records are returned.
C3_CapKeepsFirstRecords ==
    (Searched /\ max_profiles > 0) =>
        LET y == Yielded(response.json)
        IN /\ raw_profiles.t = "list"
           /\ Len(raw_profiles.v) <= max_profiles
           /\ Len(y) > max_profiles =>
                 raw_profiles.v = [i \in 1..max_profiles |-> y[i]]
           /\ Len(y) <= max_profiles => raw_profiles.v = y

\* C3 witness: three candidate records under a cap of two, and the first two
\* are returned.
C3_Witness ==
    /\ Searched
    /\ max_profiles > 0
    /\ Len(Yielded(response.json)) > max_profiles
    /\ Len(raw_profiles.v) = max_profiles
    /\ raw_profiles.v[1] # raw_profiles.v[Len(raw_profiles.v)]

----------------------------------------------------------------------------
(* SnapchatParser.search_by_keywords *)

\* lines 63-70: for profile in raw_profiles: normalize and append, or log the
\* exception and go on; utcnow_iso is read once per profile that is built
NormalizeAll(out, profiles, kw, now) ==
    LET F[i \in 0..Len(profiles)] ==
            IF i = 0 THEN [all_profiles |-> out, clock |-> now, escaped |-> FALSE]
            ELSE LET n == _normalize_profile(profiles[i], kw, F[i - 1].clock)
                 IN IF IsRaise(n) THEN F[i - 1]
                    ELSE [all_profiles |-> Append(F[i - 1].all_profiles, n),
                          clock |-> F[i - 1].clock + 1,
                          escaped |-> FALSE]
    IN F[Len(profiles)]

\* lines 54-70, faulty variant: a failed search ends the whole call with what was
\* collected so far
KeywordBody_failure_escapes(out, kw, resp, cap, now) ==
    LET raw == _search_single_keyword(resp, cap)
    IN IF IsRaise(raw) THEN [all_profiles |-> out, clock |-> now, escaped |-> TRUE]
       ELSE NormalizeAll(out, raw.v, kw, now)

\* lines 54-70: the body of `for keyword in keywords` for the keyword kw,
\* the endpoint answering resp
KeywordBody(out, kw, resp, cap, now) ==
    LET raw == _search_single_keyword(resp, cap)
    IN IF IsRaise(raw) THEN [all_profiles |-> out, clock |-> now, escaped |-> FALSE]
       ELSE NormalizeAll(out, raw.v, kw, now)

\* the answers the endpoint gives in the scenario of a whole search
DriverResponses ==
    {Raise("ConnectionError"),
     Http(500, None_),
     Http(200, Raise("ValueError")),
     Http(200, Raise("RuntimeError")),
     Http(200, PyList(<<>>)),
     Http(200, PyList(<<RecA>>)),
     Http(200, PyList(<<RecB, PyStr(<<"x">>), RecA>>)),
     Http(200, PyList(<<RecA, RecBad, RecB>>)),
     Http(200, PyDict(<< <<"profiles", None_>>,
                         <<"results", PyList(<<RecB, RecBad>>)>> >>))}

Init ==
    /\ keywords \in SeqsUpTo(KeywordPool, MaxKeywords)
    /\ max_profiles \in (0 - MaxCap)..MaxCap
    /\ kpos = 0
    /\ all_profiles = <<>>
    /\ escaped = FALSE
    /\ responses = <<>>
    /\ response = Idle
    /\ raw_profiles = Idle
    /\ clock = 0
    /\ phase = "searching"
    /\ in_profile = Idle /\ in_keyword = Idle /\ normalized = Idle
    /\ records = Idle /\ fmt = "json" /\ fs = Idle /\ export_result = Idle
    /\ rec = Idle /\ flat = Idle /\ reflat = Idle

\* one iteration of `for keyword in keywords`
SearchKeyword ==
    /\ phase = "searching"
    /\ kpos < Len(keywords)
    /\ \E resp \in DriverResponses :
          LET b == KeywordBody(all_profiles, keywords[kpos + 1], resp,
                               max_profiles, clock)
          IN /\ response' = resp
             /\ responses' = Append(responses, resp)
             /\ raw_profiles' = _search_single_keyword(resp, max_profiles)
             /\ all_profiles' = b.all_profiles
             /\ clock' = b.clock
             /\ escaped' = b.escaped
             /\ phase' = IF b.escaped THEN "raised" ELSE "searching"
    /\ kpos' = kpos + 1
    /\ UNCHANGED <<in_profile, in_keyword, normalized, keywords, max_profiles,
                   records, fmt, fs, export_result, rec, flat, reflat>>

\* return all_profiles
Return ==
    /\ phase = "searching"
    /\ kpos = Len(keywords)
    /\ phase' = "returned"
    /\ UNCHANGED <<in_profile, in_keyword, normalized, keywords, kpos,
                   all_profiles, escaped, responses, response, max_profiles,
                   raw_profiles, clock, records, fmt, fs, export_result, rec,
                   flat, reflat>>

Next == SearchKeyword \/ Return

Spec == Init /\ [][Next]_vars

----------------------------------------------------------------------------
(* Properties of search_by_keywords *)

\* a normalized profile without its scrapedAt entry
Untimed(n) == PyDict(SelectSeq(n.v, LAMBDA kv : kv[1] # "scrapedAt"))

SearchFailed(resp) ==
    IsRaise(resp) \/ resp.status_code # 200 \/ IsRaise(resp.json)

\* the normalized records of the records of q that normalize, in order
RECURSIVE Survivors(_, _)
Survivors(q, kw) ==
    IF Len(q) = 0 THEN <<>>
    ELSE LET n == _normalize_profile(Head(q), kw, 0)
         IN (IF IsRaise(n) THEN <<>> ELSE <<Untimed(n)>>) \o Survivors(Tail(q), kw)

\* what keyword number i contributes, given what the endpoint answered
Contribution(i) ==
    IF SearchFailed(responses[i]) THEN <<>>
    ELSE Survivors(Capped(Yielded(responses[i].json), max_profiles), keywords[i])

RECURSIVE Concatenated(_)
Concatenated(n) == IF n = 0 THEN <<>> ELSE Concatenated(n - 1) \o Contribution(n)

\* C1: search_by_keywords never raises; it returns the normalized records of
\* the records that normalize, of the keywords whose search did not fail, in
\* keyword order and within a keyword in result order, each tagged with its
\* keyword; a failing keyword or record removes only its own contribution.
C1_FailuresAreIsolated ==
    /\ ~escaped
    /\ phase # "raised"
    /\ Len(responses) = kpos
    /\ [i \in 1..Len(all_profiles) |-> Untimed(all_profiles[i])] = Concatenated(kpos)
    /\ \A i \in 1..Len(all_profiles) :
          At(all_profiles[i], <<"searchKeyword">>) \in Range(keywords)

\* C1 witness: the search of the first keyword raised, the second keyword
\* returned three records of which one does not normalize, and the call
\* returned the two others tagged with the second keyword.
C1_Witness ==
    /\ phase = "returned"
    /\ Len(keywords) = 2
    /\ IsRaise(responses[1])
    /\ responses[2] = Http(200, PyList(<<RecA, RecBad, RecB>>))
    /\ max_profiles = 0
    /\ Len(all_profiles) = 2
    /\ \A i \in 1..2 : At(all_profiles[i], <<"searchKeyword">>) = keywords[2]
    /\ At(all_profiles[1], <<"id">>) = PyStr(<<"1">>)
    /\ At(all_profiles[2], <<"id">>) = PyStr(<<"2">>)

----------------------------------------------------------------------------
(* DataExporter: helpers *)

\* items[k] = v
DictSet(pairs, k, v) ==
    IF \E i \in 1..Len(pairs) : pairs[i][1] = k
    THEN [i \in 1..Len(pairs) |-> IF pairs[i][1] = k THEN <<k, v>> ELSE pairs[i]]
    ELSE Append(pairs, <<k, v>>)

\* items.update(more)
RECURSIVE DictUpdate(_, _)
DictUpdate(pairs, more) ==
    IF Len(more) = 0 THEN pairs
    ELSE DictUpdate(DictSet(pairs, Head(more)[1], Head(more)[2]), Tail(more))

\* faulty variant of FlattenFrom: a nested dict is stored as it is, without recursion
RECURSIVE FlattenFrom_no_recursion(_, _, _, _)
FlattenFrom_no_recursion(pairs, i, parent_key, items) ==
    IF i > Len(pairs) THEN items
    ELSE LET k == pairs[i][1]
             new_key == IF Len(parent_key) > 0 THEN parent_key \o <<".">> \o k
                        ELSE k
         IN FlattenFrom_no_recursion(pairs, i + 1, parent_key,
                                     DictSet(items, new_key, pairs[i][2]))

\* the loop of _flatten from pair i on: `for k, v in rec.items()`
RECURSIVE FlattenFrom(_, _, _, _)
FlattenFrom(pairs, i, parent_key, items) ==
    IF i > Len(pairs) THEN items
    ELSE LET k == pairs[i][1]
             v == pairs[i][2]
             new_key == IF Len(parent_key) > 0 THEN parent_key \o <<".">> \o k
                        ELSE k
         IN FlattenFrom(pairs, i + 1, parent_key,
                        IF IsDict(v)
                        THEN DictUpdate(items, FlattenFrom(v.v, 1, new_key, <<>>))
                        ELSE DictSet(items, new_key, v))

\* DataExporter._flatten(rec, parent_key, sep="."); rec.items() raises
\* AttributeError when rec is no dict
_flatten(r, parent_key) ==
    IF IsDict(r) THEN PyDict(FlattenFrom(r.v, 1, parent_key, <<>>))
    ELSE Raise("AttributeError")

\* the characters of the model in code point order
CodePointOrder ==
    <<" ", "\"", "&", "'", "-", ".", "0", "1", "2", "3", "4", "5", "6", "7",
      "8", "9", "<", ">", "A", "B", "F", "N", "T", "_", "a", "b", "c", "e", "l",
      "n", "o", "r", "s", "u", "x", "y">>

CodePoint(c) == CHOOSE i \in 1..Len(CodePointOrder) : CodePointOrder[i] = c

\* a < b for two str
RECURSIVE StrLess(_, _)
StrLess(a, b) ==
    IF Len(b) = 0 THEN FALSE
    ELSE IF Len(a) = 0 THEN TRUE
    ELSE IF Head(a) = Head(b) THEN StrLess(Tail(a), Tail(b))
    ELSE CodePoint(Head(a)) < CodePoint(Head(b))

\* sorted(keys)
RECURSIVE Sorted(_)
Sorted(S) ==
    IF S = {} THEN <<>>
    ELSE LET m == CHOOSE x \in S : \A y \in S \ {x} : StrLess(x, y)
         IN <<m>> \o Sorted(S \ {m})

\* DataExporter._collect_all_keys(records): the list of the sorted keys, or
\* the exception of the first record that cannot be flattened
_collect_all_keys(rs) ==
    LET bad == {i \in 1..Len(rs) : ~IsDict(rs[i])}
    IN IF bad # {} THEN _flatten(rs[First(bad)], <<>>)
       ELSE PyList(Sorted(UNION {DictKeys(_flatten(rs[i], <<>>)) : i \in 1..Len(rs)}))

\* text.replace(old, new) for a one-character old
Replace(text, old, new) ==
    LET F[i \in 0..Len(text)] ==
            IF i = 0 THEN <<>>
            ELSE F[i - 1] \o (IF text[i] = old THEN new ELSE <<text[i]>>)
    IN F[Len(text)]

\* DataExporter._escape_html
_escape_html(text) ==
    Replace(Replace(Replace(Replace(text, "&", <<"&", "a", "m", "p", ";">>),
                            "<", <<"&", "l", "t", ";">>),
                    ">", <<"&", "g", "t", ";">>),
            "\"", <<"&", "q", "u", "o", "t", ";">>)

\* DataExporter._escape_xml
_escape_xml(text) ==
    Replace(_escape_html(text), "'", <<"&", "a", "p", "o", "s", ";">>)

\* the ASCII letters
Letters ==
    {"A", "B", "C", "D", "E", "F", "G", "H", "I", "J", "K", "L", "M", "N", "O",
     "P", "Q", "R", "S", "T", "U", "V", "W", "X", "Y", "Z", "a", "b", "c", "d",
     "e", "f", "g", "h", "i", "j", "k", "l", "m", "n", "o", "p", "q", "r", "s",
     "t", "u", "v", "w", "x", "y", "z"}

\* ch.isalnum()
IsAlnum(ch) == ch \in Letters \cup DecimalSet \cup NonDecimalDigitSet

\* DataExporter._sanitize_xml_tag
_sanitize_xml_tag(tag) ==
    LET safe == [i \in 1..Len(tag) |->
                    IF IsAlnum(tag[i]) \/ tag[i] \in {"_", "-"}
                    THEN tag[i] ELSE "_"]
        prefixed == IF Len(safe) > 0 /\ IsDigit(<<safe[1]>>)
                    THEN <<"f", "_">> \o safe ELSE safe
    IN IF Len(prefixed) > 0 THEN prefixed ELSE <<"f", "i", "e", "l", "d">>

\* the text of a cell csv.writer is given: nothing for None, str(v)
\* otherwise (the quoting of the csv dialect is not part of the cell)
CsvCell(v) == IF v = None_ THEN <<>> ELSE Str(v)

----------------------------------------------------------------------------
(* DataExporter.export and the six writers.  A writer gives the document   *)
(* it writes to output_path, or the exception raised before the file is    *)
(* opened.  The fixed text around the data (the HTML boilerplate, the JSON *)
(* punctuation) is left out of the document.                               *)

Absent == [t |-> "absent"]

\* the file system before the first export: neither the parent directory of
\* output_path nor the file exists
NoOutput == [dir |-> FALSE, file |-> Absent]

\* json.dump(records, f, ensure_ascii=False, indent=2)
_export_json(rs) == [t |-> "json", doc |-> PyList(rs)]

\* one json.dumps(rec) line per record
_export_jsonl(rs) == [t |-> "jsonl", lines |-> rs]

\* the row of one record under the header: flattened.get(col, "") per column
RowOf(r, header) ==
    LET flattened == _flatten(r, <<>>)
    IN [j \in 1..Len(header) |-> DictGet(flattened, header[j], PyStr(<<>>))]

_export_csv(rs) ==
    IF Len(rs) = 0 THEN [t |-> "csv", rows |-> << <<>> >>]
    ELSE LET header == _collect_all_keys(rs)
         IN IF IsRaise(header) THEN header
            ELSE [t |-> "csv",
                  rows |-> <<header.v>> \o
                      [i \in 1..Len(rs) |->
                          [j \in 1..Len(header.v) |->
                              CsvCell(RowOf(rs[i], header.v)[j])]]]

_export_html(rs) ==
    LET header == _collect_all_keys(rs)
    IN IF IsRaise(header) THEN header
       ELSE [t |-> "html",
             th |-> [j \in 1..Len(header.v) |-> _escape_html(header.v[j])],
             tr |-> [i \in 1..Len(rs) |->
                        [j \in 1..Len(header.v) |->
                            _escape_html(Str(RowOf(rs[i], header.v)[j]))]]]

_export_xml(rs) ==
    LET bad == {i \in 1..Len(rs) : ~IsDict(rs[i])}
    IN IF bad # {} THEN _flatten(rs[First(bad)], <<>>)
       ELSE [t |-> "xml",
             profiles |-> [i \in 1..Len(rs) |->
                 LET flattened == _flatten(rs[i], <<>>).v
                 IN [j \in 1..Len(flattened) |->
                        <<_sanitize_xml_tag(flattened[j][1]),
                          _escape_xml(Str(flattened[j][2]))>>]]]

\* the value openpyxl binds to a cell of a row given to ws.append: None, a
\* bool, a number or a str is stored as it is; any other value (a list, a
\* dict) is refused with ValueError("Cannot convert ... to Excel")
ExcelCell(v) == IF v.t \in {"list", "dict"} THEN Raise("ValueError") ELSE v

\* DataExporter._export_excel: the header row and one row per record are
\* appended to the worksheet, and the workbook is saved last (line 163), so
\* a cell that is refused leaves no file
_export_excel(rs) ==
    LET header == _collect_all_keys(rs)
    IN IF IsRaise(header) THEN header
       ELSE LET rows == [i \in 1..Len(rs) |->
                           LET row == RowOf(rs[i], header.v)
                           IN [j \in 1..Len(row) |-> ExcelCell(row[j])]]
            IN IF \E i \in 1..Len(rows) : \E j \in 1..Len(rows[i]) :
                     IsRaise(rows[i][j])
               THEN Raise("ValueError")
               ELSE [t |-> "excel", title |-> "Profiles",
                     rows |-> <<[j \in 1..Len(header.v) |-> PyStr(header.v[j])]>>
                              \o rows]

Formats == {"json", "jsonl", "csv", "html", "xml", "excel"}

Written(rs, f) ==
    CASE f = "json" -> _export_json(rs)
      [] f = "jsonl" -> _export_jsonl(rs)
      [] f = "csv" -> _export_csv(rs)
      [] f = "html" -> _export_html(rs)
      [] f = "xml" -> _export_xml(rs)
      [] f = "excel" -> _export_excel(rs)

\* DataExporter.export(records): the file system it leaves and None, or the
\* exception it raises
export(rs, f, files) ==
    IF ~IsList(rs) THEN [fs |-> files, result |-> Raise("TypeError")]
    ELSE IF Len(rs.v) > 0 /\ ~IsDict(rs.v[1])
    THEN [fs |-> files, result |-> Raise("TypeError")]
    ELSE LET made == [files EXCEPT !.dir = TRUE]
             out == Written(rs.v, f)
         IN IF out.t = "raise" THEN [fs |-> made, result |-> out]
            ELSE [fs |-> [made EXCEPT !.file = out], result |-> None_]

----------------------------------------------------------------------------
(* Scenario: one call of DataExporter.export *)

MaxRows == 2

ExportKeys == {<<"a">>, <<"b">>}
\* the values of an entry: null, a string to escape, a nested mapping, a
\* list of a string that holds an apostrophe
ExportValues ==
    {None_, PyStr(<<"<", "x">>), PyDict(<< <<<<"b">>, PyInt(1)>> >>),
     PyList(<<PyStr(<<"x", "'">>)>>)}

\* the records: mappings of at most two entries, in either key order
ExportRecords ==
    {EmptyDict}
    \cup {PyDict(<< <<k, v>> >>) : k \in ExportKeys, v \in ExportValues}
    \cup UNION {{PyDict(<< <<k1, v1>>, <<k2, v2>> >>)
                    : k2 \in ExportKeys \ {k1}, v2 \in ExportValues}
                : k1 \in ExportKeys, v1 \in ExportValues}

\* what a list handed to export may hold besides records
NonRecords == {PyStr(<<"x">>), None_}

ExportInputs ==
    {None_, PyStr(<<"x">>), PyDict(<< <<<<"a">>, PyInt(1)>> >>)}
    \cup {PyList(q) : q \in SeqsUpTo(ExportRecords \cup NonRecords, MaxRows)}

InitExport ==
    /\ records \in ExportInputs
    /\ fmt \in Formats
    /\ fs = NoOutput
    /\ export_result = Idle
    /\ phase = "ready"
    /\ in_profile = Idle /\ in_keyword = Idle /\ normalized = Idle /\ clock = 0
    /\ keywords = <<>> /\ kpos = 0 /\ all_profiles = <<>> /\ escaped = FALSE
    /\ responses = <<>> /\ response = Idle /\ max_profiles = 0
    /\ raw_profiles = Idle
    /\ rec = Idle /\ flat = Idle /\ reflat = Idle

\* exporter.export(records)
Export ==
    /\ phase = "ready"
    /\ fs' = export(records, fmt, fs).fs
    /\ export_result' = export(records, fmt, fs).result
    /\ phase' = "exported"
    /\ UNCHANGED <<in_profile, in_keyword, normalized, keywords, kpos,
                   all_profiles, escaped, responses, response, max_profiles,
                   raw_profiles, clock, records, fmt, rec, flat, reflat>>

NextExport == Export

SpecExport == InitExport /\ [][NextExport]_vars

----------------------------------------------------------------------------
(* Properties of export *)

Exported == phase = "exported"

\* the input is a list of mappings
ValidInput(x) == IsList(x) /\ \A i \in 1..Len(x.v) : IsDict(x.v[i])

\* C4 as stated: an input that is not a list, or that holds an element that
\* is not a mapping at any position, is rejected with a type error before
\* the directory or the file is touched, for every format.
C4_InvalidInputRejectedUpFront ==
    (Exported /\ ~ValidInput(records)) =>
        /\ export_result = Raise("TypeError")
        /\ fs = NoOutput

TabularFormats == {"csv", "html", "excel"}

\* the header row and the data rows of the written document
HeaderRow(doc) ==
    CASE doc.t = "csv" -> doc.rows[1]
      [] doc.t = "html" -> doc.th
      [] doc.t = "excel" -> doc.rows[1]
DataRows(doc) ==
    CASE doc.t = "csv" -> Tail(doc.rows)
      [] doc.t = "html" -> doc.tr
      [] doc.t = "excel" -> Tail(doc.rows)

\* how a format writes a column name and a value
ShownName(f, k) ==
    CASE f = "csv" -> k [] f = "html" -> _escape_html(k) [] f = "excel" -> PyStr(k)
ShownValue(f, v) ==
    CASE f = "csv" -> CsvCell(v) [] f = "html" -> _escape_html(Str(v))
      [] f = "excel" -> v

\* the union of the flattened keys of the records
AllFlatKeys(rs) == UNION {DictKeys(_flatten(rs[i], <<>>)) : i \in 1..Len(rs)}

\* the member of S that has exactly j - 1 members of S before it
KeyAtRank(S, j) == CHOOSE k \in S : Cardinality({x \in S : StrLess(x, k)}) = j - 1

\* the members of S once each, in increasing order
InIncreasingOrder(S) == [j \in 1..Cardinality(S) |-> KeyAtRank(S, j)]

\* what C7 says of an export: the header is the sorted union of the
\* flattened keys of all records, every record has one row with one cell per
\* header column, in header order, holding the record's flattened value for
\* the column, or the empty string when the record has no such key; and a
\* CSV export of the empty list is a single empty header row and no data row
HeaderAndRowsAsClaimed ==
    LET header == InIncreasingOrder(AllFlatKeys(records.v))
    IN /\ export_result = None_
       /\ fs.file.t = fmt
       /\ HeaderRow(fs.file)
             = [j \in 1..Len(header) |-> ShownName(fmt, header[j])]
       /\ Len(DataRows(fs.file)) = Len(records.v)
       /\ \A i \in 1..Len(records.v) :
             LET flattened == _flatten(records.v[i], <<>>)
             IN /\ Len(DataRows(fs.file)[i]) = Len(header)
                /\ \A j \in 1..Len(header) :
                      DataRows(fs.file)[i][j]
                        = ShownValue(fmt,
                            IF HasKey(flattened, header[j])
                            THEN DictGet(flattened, header[j], None_)
                            ELSE PyStr(<<>>))
       /\ (fmt = "csv" /\ Len(records.v) = 0) => fs.file.rows = << <<>> >>

\* C7 as stated: a CSV, HTML or spreadsheet export of any list of records
\* writes the sorted union of the flattened keys of all records as its
\* header, and one row per record with one cell per header column, in header
\* order, holding the record's flattened value for the column, or the empty
\* string when the record has no such key; a CSV export of the empty list
\* writes a single empty header row and no data row.
C7_HeaderIsSortedUnionRowsAligned ==
    (Exported /\ fmt \in TabularFormats /\ ValidInput(records)) =>
        HeaderAndRowsAsClaimed

\* some flattened value of the records is a list
HoldsListValue(rs) ==
    \E i \in 1..Len(rs) :
        LET flattened == _flatten(rs[i], <<>>)
        IN \E n \in 1..Len(flattened.v) : IsList(flattened.v[n][2])

\* C7, the failing case: the spreadsheet export of a record that holds a list
\* raises ValueError and writes no file.
C7_ListCellRefusedBySpreadsheet ==
    /\ Exported
    /\ fmt = "excel"
    /\ records = PyList(<<PyDict(<< <<<<"a">>, PyList(<<PyStr(<<"x", "'">>)>>)>> >>)>>)
    /\ export_result = Raise("ValueError")
    /\ fs.file = Absent

\* C7, what holds: the statement of C7 for every CSV and HTML export, and for
\* every spreadsheet export of records that hold no list; a spreadsheet
\* export of records that hold a list raises ValueError and writes no file.
C7_HoldsExceptListCellsInSpreadsheet ==
    (Exported /\ fmt \in TabularFormats /\ ValidInput(records)) =>
        IF fmt = "excel" /\ HoldsListValue(records.v)
        THEN export_result = Raise("ValueError") /\ fs.file = Absent
        ELSE HeaderAndRowsAsClaimed

----------------------------------------------------------------------------
(* Scenario: _flatten, and _flatten of its result *)

FlattenKeys == {<<>>, <<"a">>, <<"b">>, <<"a", ".", "b">>}
FlattenLeaves == {None_, PyBool(TRUE), PyInt(7)}

\* mappings of at most one entry, nested at most twice
InnerDicts ==
    {EmptyDict} \cup {PyDict(<< <<k, v>> >>) : k \in FlattenKeys, v \in FlattenLeaves}
MiddleDicts ==
    {EmptyDict}
    \cup {PyDict(<< <<k, v>> >>) : k \in FlattenKeys,
                                   v \in FlattenLeaves \cup InnerDicts}
\* the value of an entry of a record: a leaf or a nested mapping
FlattenValues == FlattenLeaves \cup MiddleDicts

\* the record has at most two entries, under different keys
InitFlatten ==
    /\ \/ rec = EmptyDict
       \/ \E k \in FlattenKeys, v \in FlattenValues : rec = PyDict(<< <<k, v>> >>)
       \/ \E k1 \in FlattenKeys, v1 \in FlattenValues :
             \E k2 \in FlattenKeys \ {k1}, v2 \in FlattenValues :
                rec = PyDict(<< <<k1, v1>>, <<k2, v2>> >>)
    /\ flat = Idle
    /\ reflat = Idle
    /\ phase = "ready"
    /\ in_profile = Idle /\ in_keyword = Idle /\ normalized = Idle /\ clock = 0
    /\ keywords = <<>> /\ kpos = 0 /\ all_profiles = <<>> /\ escaped = FALSE
    /\ responses = <<>> /\ response = Idle /\ max_profiles = 0
    /\ raw_profiles = Idle
    /\ records = Idle /\ fmt = "json" /\ fs = Idle /\ export_result = Idle

\* flattened = self._flatten(rec)
Flatten ==
    /\ phase = "ready"
    /\ flat' = _flatten(rec, <<>>)
    /\ phase' = "flattened"
    /\ UNCHANGED <<in_profile, in_keyword, normalized, keywords, kpos,
                   all_profiles, escaped, responses, response, max_profiles,
                   raw_profiles, clock, records, fmt, fs, export_result, rec,
                   reflat>>

\* self._flatten(flattened)
FlattenAgain ==
    /\ phase = "flattened"
    /\ reflat' = _flatten(flat, <<>>)
    /\ phase' = "reflattened"
    /\ UNCHANGED <<in_profile, in_keyword, normalized, keywords, kpos,
                   all_profiles, escaped, responses, response, max_profiles,
                   raw_profiles, clock, records, fmt, fs, export_result, rec,
                   flat>>

NextFlatten == Flatten \/ FlattenAgain

SpecFlatten == InitFlatten /\ [][NextFlatten]_vars

----------------------------------------------------------------------------
(* Properties of _flatten *)

\* the leaves of a mapping in iteration order, each with its path of keys
RECURSIVE LeavesOf(_, _)
LeavesOf(pairs, path) ==
    IF Len(pairs) = 0 THEN <<>>
    ELSE LET here == Append(path, Head(pairs)[1])
             v == Head(pairs)[2]
         IN (IF IsDict(v) THEN LeavesOf(v.v, here)
             ELSE <<[path |-> here, value |-> v]>>)
            \o LeavesOf(Tail(pairs), path)

\* k1.k2...kn
RECURSIVE DotJoined(_)
DotJoined(path) ==
    IF Len(path) = 1 THEN path[1]
    ELSE DotJoined(SubSeq(path, 1, Len(path) - 1)) \o <<".">> \o path[Len(path)]

\* k1.k2...kn without the empty keys the path starts with and their dots
RECURSIVE DotJoinedPastEmpty(_)
DotJoinedPastEmpty(path) ==
    IF Len(path) = 1 THEN path[1]
    ELSE IF Len(path[1]) = 0 THEN DotJoinedPastEmpty(Tail(path))
    ELSE DotJoined(path)

NoMappingValue(d) == \A i \in 1..Len(d.v) : ~IsDict(d.v[i][2])

FlattenDone == phase \in {"flattened", "reflattened"}

\* C8 as stated: the result has no mapping-valued entry, holds every leaf of
\* the record under the dot-joined keys of its path with the leaf's own
\* value, and flattening the result again changes nothing.
C8_EveryLeafUnderItsDottedPath ==
    /\ FlattenDone =>
          /\ IsDict(flat) /\ NoMappingValue(flat)
          /\ \A i \in 1..Len(LeavesOf(rec.v, <<>>)) :
                LET leaf == LeavesOf(rec.v, <<>>)[i]
                IN /\ HasKey(flat, DotJoined(leaf.path))
                   /\ DictGet(flat, DotJoined(leaf.path), None_) = leaf.value
    /\ phase = "reflattened" => reflat = flat

\* C8 as amended: the result has no mapping-valued entry and its keys are
\* exactly the keys of the leaves, the key of a leaf being the dot-joined
\* keys of its path after the empty keys the path starts with are dropped;
\* each key holds the value of the last leaf, in iteration order, that has
\* that key (so a leaf keeps its own value unless a later leaf has the same
\* key); and flattening the result again changes nothing.
C8_LeavesUnderJoinedKeysLastWins ==
    /\ FlattenDone =>
          LET leaves == LeavesOf(rec.v, <<>>)
              keyOf(i) == DotJoinedPastEmpty(leaves[i].path)
          IN /\ IsDict(flat) /\ NoMappingValue(flat)
             /\ DictKeys(flat) = {keyOf(i) : i \in 1..Len(leaves)}
             /\ Len(flat.v) = Cardinality(DictKeys(flat))
             /\ \A i \in 1..Len(leaves) :
                   (\A j \in 1..Len(leaves) : j > i => keyOf(j) # keyOf(i))
                       => DictGet(flat, keyOf(i), Idle) = leaves[i].value
    /\ phase = "reflattened" => reflat = flat

\* C8 witness: a record with a leaf three levels down and a second leaf was
\* flattened twice; both leaves are found under their dotted keys.
C8_Witness ==
    /\ phase = "reflattened"
    /\ rec = PyDict(<< <<<<"a">>, PyDict(<< <<<<"b">>,
                          PyDict(<< <<<<"a">>, PyInt(7)>> >>)>> >>)>>,
                       <<<<"b">>, None_>> >>)
    /\ flat = PyDict(<< <<<<"a", ".", "b", ".", "a">>, PyInt(7)>>,
                        <<<<"b">>, None_>> >>)
    /\ reflat = flat

====
